---- MODULE Spec2Model ----
(***************************************************************************)
(* Model of the grain cooking simulator (src/src/simulator.js).            *)
(*                                                                         *)
(* Units.  The driver advances simTime by (100/1000)*speedMultiplier       *)
(* seconds per tick, so every elapsed time is a whole number of tenths of  *)
(* a second.  All times of the model are integers counting tenths of a     *)
(* second; the phase-local progress values of simulateCooking are          *)
(* rationals and are kept as integer numerators over a stated denominator. *)
(* Numbers are the decimal values the source writes; the rounding error of *)
(* binary floating point is not represented.                               *)
(***************************************************************************)
EXTENDS Integers, Sequences, FiniteSets, TLC

\* GRAIN_PROFILES: the fields the physics reads.  gelatinization_onset is in
\* tenths of a degree (65.9 C = 659), every other field in the source's unit.
GRAIN_PROFILES ==
  [ basmati_rice |-> [ initial_moisture |-> 12, target_moisture |-> 65,
                       gelatinization_onset |-> 659, gelatinization_temp |-> 68,
                       optimal_cook_time |-> 10 ],
    chickpeas    |-> [ initial_moisture |-> 10, target_moisture |-> 70,
                       gelatinization_onset |-> 720, gelatinization_temp |-> 75,
                       optimal_cook_time |-> 20 ],
    lentils      |-> [ initial_moisture |-> 11, target_moisture |-> 68,
                       gelatinization_onset |-> 650, gelatinization_temp |-> 70,
                       optimal_cook_time |-> 14 ],
    quinoa       |-> [ initial_moisture |-> 10, target_moisture |-> 62,
                       gelatinization_onset |-> 610, gelatinization_temp |-> 65,
                       optimal_cook_time |-> 12 ] ]

GrainIds == DOMAIN GRAIN_PROFILES

\* COOKING_PHASES, by key; PhaseRank is the order of the phases in the enumeration.
COOKING_PHASES == <<"MICROWAVE", "TRANSFER", "PRESSURE", "COOLING", "DONE">>

PhaseRank(ph) == CHOOSE i \in 1..Len(COOKING_PHASES) : COOKING_PHASES[i] = ph

\* The options of the "Simulation Speed" select.
SpeedOptions == {1, 2, 5, 10, 20}

\* The speeds Spec selects: the default one and the fastest one.  A run at a
\* slower speed takes the same path through simulateCooking on a finer grid of
\* elapsed times.
Speeds == {10, 20}

\* Bounds of the model: before a run is complete the speed is changed only
\* while the series holds at most MaxMixLen samples; the weight input is parsed to NaN or to one of
\* -1 .. MaxWeightInput.
MaxMixLen == 1
MaxWeightInput == 0

\* A result of parseInt: NaN (nan is TRUE) or the integer n.
WeightInputs == { [nan |-> TRUE, n |-> 0] }
                \cup { [nan |-> FALSE, n |-> v] : v \in -1..MaxWeightInput }

\* cookTime = grain.optimal_cook_time * 60 seconds, in tenths of a second.
cookTime(g) == GRAIN_PROFILES[g].optimal_cook_time * 60 * 10

\* TIME_INCREMENT = (UPDATE_INTERVAL / 1000) * speedMultiplier seconds
\* = speedMultiplier tenths of a second.
UPDATE_INTERVAL == 100

\* TIME_INCREMENT without the factor speedMultiplier.
TIME_INCREMENTNoSpeed(speed) == (UPDATE_INTERVAL * 10) \div 1000

TIME_INCREMENT(speed) == (UPDATE_INTERVAL * speed * 10) \div 1000

\* The phase boundaries cookTime * 0.45, 0.48, 0.85, 0.95 and the phase lengths
\* cookTime * 0.37 and cookTime * 0.15; the comparisons below are written
\* cross-multiplied by 100 so that no boundary is rounded.
mwLen(g)   == (cookTime(g) * 45) \div 100
prLen(g)   == (cookTime(g) * 37) \div 100
coolLen(g) == (cookTime(g) * 15) \div 100

\* phaseOf with the first boundary compared by <=: the instant cookTime * 0.45
\* stays in MICROWAVE.
phaseOfBoundaryInclusive(g, time) ==
  IF 100 * time <= 45 * cookTime(g) THEN "MICROWAVE"
  ELSE IF 100 * time < 48 * cookTime(g) THEN "TRANSFER"
  ELSE IF 100 * time < 85 * cookTime(g) THEN "PRESSURE"
  ELSE IF 100 * time < 95 * cookTime(g) THEN "COOLING"
  ELSE "DONE"

\* phaseOf with the branches of the COOLING / DONE conditional exchanged.
phaseOfCoolingDoneSwapped(g, time) ==
  IF 100 * time < 45 * cookTime(g) THEN "MICROWAVE"
  ELSE IF 100 * time < 48 * cookTime(g) THEN "TRANSFER"
  ELSE IF 100 * time < 85 * cookTime(g) THEN "PRESSURE"
  ELSE IF 100 * time < 95 * cookTime(g) THEN "DONE"
  ELSE "COOLING"

phaseOf(g, time) ==
  IF 100 * time < 45 * cookTime(g) THEN "MICROWAVE"
  ELSE IF 100 * time < 48 * cookTime(g) THEN "TRANSFER"
  ELSE IF 100 * time < 85 * cookTime(g) THEN "PRESSURE"
  ELSE IF 100 * time < 95 * cookTime(g) THEN "COOLING"
  ELSE "DONE"

\* Math.floor(time) for a time in tenths of a second, in seconds.
floorSec(time) == time \div 10

\* toFixed1 rounding to whole minutes, (time / 60).toFixed(0), kept in tenths.
toFixed1WholeMinutes(time) == ((time + 300) \div 600) * 10

\* (time / 60).toFixed(1): minutes rounded to one decimal (ties to the larger
\* value), as a count of tenths of a minute.
toFixed1(time) == (time + 30) \div 60

\* parseFloat((time / 60).toFixed(2)): minutes rounded to two decimals, as a
\* count of hundredths of a minute.
toFixed2(time) == (time + 3) \div 6

\* ---------------------------------------------------------------------------
\* simulateCooking: the sample
\* ---------------------------------------------------------------------------
\* A sample carries the numerators of moisture, temperature, pressure,
\* ultrasonicVelocity and microwavePower over the denominator den (value =
\* numerator / den), and gelatinizationProgress over gelUnit(g).

\* onsetProgress = (gelatinization_onset - 25) / (gelatinization_temp + 15 - 25),
\* numerator and denominator in tenths of a degree.
onsetNum(g) == GRAIN_PROFILES[g].gelatinization_onset - 250
onsetDen(g) == (GRAIN_PROFILES[g].gelatinization_temp + 15 - 25) * 10

\* Denominator of gelatinizationProgress.  With mwLen = 270 * optimal_cook_time
\* and prLen = 222 * optimal_cook_time, the MICROWAVE value
\*   progressSinceOnset * 60
\*     = 60 * (time * onsetDen - onsetNum * mwLen) / (mwLen * (onsetDen - onsetNum))
\* and the PRESSURE value 60 + 40 * (time - 0.48 cookTime) / prLen are both whole
\* multiples of 1 / (333 * optimal_cook_time * (onsetDen - onsetNum)).
gelUnit(g) == 333 * GRAIN_PROFILES[g].optimal_cook_time * (onsetDen(g) - onsetNum(g))

Max(a, b) == IF a >= b THEN a ELSE b
Min(a, b) == IF a <= b THEN a ELSE b

\* temperature >= grain.gelatinization_onset in the MICROWAVE branch, where
\* temperature = 25 + (gelatinization_temp + 15) * time / mwLen.
onsetReached(g, time) ==
  250 * mwLen(g) + (GRAIN_PROFILES[g].gelatinization_temp + 15) * 10 * time
    >= GRAIN_PROFILES[g].gelatinization_onset * mwLen(g)

\* microwaveGel without Math.max(0, ...).
microwaveGelNoFloor(g, time) ==
  IF onsetReached(g, time)
  THEN Min(60 * gelUnit(g), 74 * (time * onsetDen(g) - onsetNum(g) * mwLen(g)))
  ELSE 0

\* gelatinizationProgress of the MICROWAVE branch; 74 is 60 * gelUnit(g) /
\* (mwLen(g) * (onsetDen(g) - onsetNum(g))).
microwaveGel(g, time) ==
  IF onsetReached(g, time)
  THEN Max(0, Min(60 * gelUnit(g),
                  74 * (time * onsetDen(g) - onsetNum(g) * mwLen(g))))
  ELSE 0

microwaveSample(g, time) ==
  LET G == GRAIN_PROFILES[g]
      d == mwLen(g)
  IN  [ time |-> toFixed2(time), phase |-> "MICROWAVE", den |-> d,
        moisture |-> G.initial_moisture * d + (45 - G.initial_moisture) * time,
        temperature |-> 25 * d + (G.gelatinization_temp + 15) * time,
        pressure |-> d,
        microwavePower |-> 40 * d + 40 * time,
        ultrasonicVelocity |-> 1500 * d + 120 * time,
        gelatinizationProgress |-> microwaveGel(g, time) ]

transferSample(g, time) ==
  [ time |-> toFixed2(time), phase |-> "TRANSFER", den |-> 1,
    moisture |-> 45,
    temperature |-> GRAIN_PROFILES[g].gelatinization_temp + 15,
    pressure |-> 1,
    microwavePower |-> 0,
    ultrasonicVelocity |-> 1620,
    gelatinizationProgress |-> 60 * gelUnit(g) ]

\* pressureProgress = q / prLen with q = time - cookTime * 0.48; den carries a
\* factor 10 for the pressure 2.2.
pressureSample(g, time) ==
  LET G == GRAIN_PROFILES[g]
      L == prLen(g)
      q == time - (cookTime(g) * 48) \div 100
  IN  [ time |-> toFixed2(time), phase |-> "PRESSURE", den |-> 10 * L,
        moisture |-> 10 * (45 * L + (G.target_moisture - 45) * q),
        temperature |-> 10 * ((G.gelatinization_temp + 15) * L
                              + (100 - G.gelatinization_temp - 15) * q),
        pressure |-> IF 100 * q < 15 * L THEN 10 * L + 80 * q ELSE 22 * L,
        microwavePower |-> 0,
        ultrasonicVelocity |-> 10 * (1620 * L + 70 * q),
        gelatinizationProgress |->
          60 * gelUnit(g) + 60 * (onsetDen(g) - onsetNum(g)) * q ]

\* coolingSample without the term - 2 * coolProgress of the moisture.
coolingSampleNoDrying(g, time) ==
  LET G == GRAIN_PROFILES[g]
      L == coolLen(g)
      q == time - (cookTime(g) * 85) \div 100
  IN  [ time |-> toFixed2(time), phase |-> phaseOf(g, time), den |-> 10 * L,
        moisture |-> 10 * G.target_moisture * L,
        temperature |-> 10 * (100 * L - 35 * q),
        pressure |-> 22 * L - 12 * q,
        microwavePower |-> 0,
        ultrasonicVelocity |-> 10 * (1690 * L - 10 * q),
        gelatinizationProgress |-> 100 * gelUnit(g) ]

\* coolProgress = q / coolLen with q = time - cookTime * 0.85; den carries a
\* factor 10 for the pressure 2.2 - 1.2 * coolProgress.
coolingSample(g, time) ==
  LET G == GRAIN_PROFILES[g]
      L == coolLen(g)
      q == time - (cookTime(g) * 85) \div 100
  IN  [ time |-> toFixed2(time), phase |-> phaseOf(g, time), den |-> 10 * L,
        moisture |-> 10 * (G.target_moisture * L - 2 * q),
        temperature |-> 10 * (100 * L - 35 * q),
        pressure |-> 22 * L - 12 * q,
        microwavePower |-> 0,
        ultrasonicVelocity |-> 10 * (1690 * L - 10 * q),
        gelatinizationProgress |-> 100 * gelUnit(g) ]

\* The object simulateCooking returns.
newDataPoint(g, time) ==
  CASE phaseOf(g, time) = "MICROWAVE" -> microwaveSample(g, time)
    [] phaseOf(g, time) = "TRANSFER"  -> transferSample(g, time)
    [] phaseOf(g, time) = "PRESSURE"  -> pressureSample(g, time)
    [] OTHER                          -> coolingSample(g, time)

\* transformationOf with the third branch comparing gel > 60.
transformationOfAbove60(g, gel) ==
  IF gel = 0 THEN "Hydration"
  ELSE IF gel > 0 /\ gel < 60 * gelUnit(g) THEN "Gelatinization Onset"
  ELSE IF gel > 60 * gelUnit(g) /\ gel < 100 * gelUnit(g) THEN "Complete Gelatinization"
  ELSE IF gel = 100 * gelUnit(g) THEN "Fully Cooked"
  ELSE "Hydration"

\* transformationOf without the branch of gelatinizationProgress = 100.
transformationOfNoFullyCooked(g, gel) ==
  IF gel = 0 THEN "Hydration"
  ELSE IF gel > 0 /\ gel < 60 * gelUnit(g) THEN "Gelatinization Onset"
  ELSE IF gel >= 60 * gelUnit(g) /\ gel < 100 * gelUnit(g) THEN "Complete Gelatinization"
  ELSE "Hydration"

\* The transformation label computed from gelatinizationProgress (numerator
\* over gelUnit(g)); "Hydration" is the initial value of the local variable and
\* stays when no branch applies.
transformationOf(g, gel) ==
  IF gel = 0 THEN "Hydration"
  ELSE IF gel > 0 /\ gel < 60 * gelUnit(g) THEN "Gelatinization Onset"
  ELSE IF gel >= 60 * gelUnit(g) /\ gel < 100 * gelUnit(g) THEN "Complete Gelatinization"
  ELSE IF gel = 100 * gelUnit(g) THEN "Fully Cooked"
  ELSE "Hydration"

\* ---------------------------------------------------------------------------
\* The Decision Log
\* ---------------------------------------------------------------------------
\* A log entry is [time, message]: time is the elapsed time of the event (the
\* source stores time / 60) and message names the template of the text; the
\* numbers a template interpolates are functions of the grain and of time.

\* addDecision looking for an entry of the same bucket and the same message.
addDecisionByMessage(prev, time, message) ==
  LET timeKey == toFixed1(time)
      exists  == \E i \in 1..Len(prev) :
                   toFixed1(prev[i].time) = timeKey /\ prev[i].message = message
  IN  IF ~exists THEN Append(prev, [time |-> time, message |-> message])
      ELSE prev

\* addDecision overwriting the entry of the same bucket.
addDecisionReplaces(prev, time, message) ==
  LET timeKey == toFixed1(time)
      same    == { i \in 1..Len(prev) : toFixed1(prev[i].time) = timeKey }
  IN  IF same = {} THEN Append(prev, [time |-> time, message |-> message])
      ELSE [ i \in 1..Len(prev) |->
               IF i \in same THEN [time |-> time, message |-> message] ELSE prev[i] ]

\* addDecision's updater: prev.some(d => d.time.toFixed(1) === timeKey).
addDecision(prev, time, message) ==
  LET timeKey == toFixed1(time)
      exists  == \E i \in 1..Len(prev) : toFixed1(prev[i].time) = timeKey
  IN  IF ~exists THEN Append(prev, [time |-> time, message |-> message])
      ELSE prev

\* The addDecision calls of one simulateCooking(time), in program order, for the
\* latch values refs = [nirScan, gelOnset, gelComplete, transfer] at entry.
SeqIf(cond, e) == IF cond THEN <<e>> ELSE <<>>

nirEvents(time, refs) ==
  IF time = 0 /\ ~refs.nirScan
  THEN << [time |-> 0, message |-> "NIR Scan Complete"],
          [time |-> 0, message |-> "Composition"] >>
  ELSE <<>>

microwaveEvents(g, time, refs) ==
  SeqIf(onsetReached(g, time) /\ ~refs.gelOnset,
        [time |-> time, message |-> "Gelatinization onset detected"])
  \o SeqIf(5 * time > mwLen(g) /\ floorSec(time) % 60 = 0,
           [time |-> time, message |-> "Microwave at"])

transferEvents(g, time, refs) ==
  SeqIf(~refs.transfer, [time |-> time, message |-> "Transferring vessel"])

pressureEvents(g, time, refs) ==
  LET L == prLen(g)
      q == time - (cookTime(g) * 48) \div 100
  IN  SeqIf(10 * q > 6 * L /\ ~refs.gelComplete,
            [time |-> time, message |-> "Gelatinization complete"])
      \o (IF 100 * q < 15 * L /\ floorSec(time) % 40 = 0
          THEN << [time |-> time, message |-> "Building pressure"] >>
          ELSE IF 100 * q >= 15 * L /\ floorSec(time) % 80 = 0
          THEN << [time |-> time, message |-> "Holding steady pressure"] >>
          ELSE <<>>)

coolingEvents(g, time, refs) ==
  LET L == coolLen(g)
      q == time - (cookTime(g) * 85) \div 100
  IN  SeqIf(10 * q < 3 * L /\ floorSec(time) % 30 = 0,
            [time |-> time, message |-> "Depressurizing"])
      \o SeqIf(phaseOf(g, time) = "DONE" /\ floorSec(time) % 20 = 0,
               [time |-> time, message |-> "Cooking complete"])

emittedEvents(g, time, refs) ==
  nirEvents(time, refs)
  \o (CASE phaseOf(g, time) = "MICROWAVE" -> microwaveEvents(g, time, refs)
        [] phaseOf(g, time) = "TRANSFER"  -> transferEvents(g, time, refs)
        [] phaseOf(g, time) = "PRESSURE"  -> pressureEvents(g, time, refs)
        [] OTHER                          -> coolingEvents(g, time, refs))

\* The queued setDecisions updaters applied in order.
RECURSIVE applyDecisions(_, _)
applyDecisions(prev, events) ==
  IF events = <<>> THEN prev
  ELSE applyDecisions(addDecision(prev, Head(events).time, Head(events).message),
                      Tail(events))

\* refsAfter without transferLoggedRef.current = true.
refsAfterTransferNotLatched(g, time, refs) ==
  LET ph == phaseOf(g, time)
      q  == time - (cookTime(g) * 48) \div 100
  IN  [ nirScan     |-> refs.nirScan \/ time = 0,
        gelOnset    |-> refs.gelOnset \/ (ph = "MICROWAVE" /\ onsetReached(g, time)),
        transfer    |-> refs.transfer,
        gelComplete |-> refs.gelComplete \/ (ph = "PRESSURE" /\ 10 * q > 6 * prLen(g)) ]

\* refsAfter setting gelCompleteLoggedRef in every PRESSURE call.
refsAfterCompleteAtOnce(g, time, refs) ==
  LET ph == phaseOf(g, time)
  IN  [ nirScan     |-> refs.nirScan \/ time = 0,
        gelOnset    |-> refs.gelOnset \/ (ph = "MICROWAVE" /\ onsetReached(g, time)),
        transfer    |-> refs.transfer \/ ph = "TRANSFER",
        gelComplete |-> refs.gelComplete \/ ph = "PRESSURE" ]

\* The latch values after simulateCooking(time).
refsAfter(g, time, refs) ==
  LET ph == phaseOf(g, time)
      q  == time - (cookTime(g) * 48) \div 100
  IN  [ nirScan     |-> refs.nirScan \/ time = 0,
        gelOnset    |-> refs.gelOnset \/ (ph = "MICROWAVE" /\ onsetReached(g, time)),
        transfer    |-> refs.transfer \/ ph = "TRANSFER",
        gelComplete |-> refs.gelComplete \/ (ph = "PRESSURE" /\ 10 * q > 6 * prLen(g)) ]

\* ---------------------------------------------------------------------------
\* The component state
\* ---------------------------------------------------------------------------
VARIABLES selectedGrain, grainWeight, speedMultiplier, isRunning, simTime,
          data, currentPhase, grainTransformation, decisions,
          nirScanLoggedRef, gelOnsetLoggedRef, gelCompleteLoggedRef,
          transferLoggedRef, intervalRef

vars == << selectedGrain, grainWeight, speedMultiplier, isRunning, simTime,
           data, currentPhase, grainTransformation, decisions,
           nirScanLoggedRef, gelOnsetLoggedRef, gelCompleteLoggedRef,
           transferLoggedRef, intervalRef >>

refsNow == [ nirScan |-> nirScanLoggedRef, gelOnset |-> gelOnsetLoggedRef,
             gelComplete |-> gelCompleteLoggedRef, transfer |-> transferLoggedRef ]

\* intervalRef: the interval the effect has set and not cleared, with the grain
\* and the TIME_INCREMENT its callback closed over; active is FALSE when no
\* interval is pending.
NoInterval == [active |-> FALSE, grain |-> "basmati_rice", inc |-> 0]

\* tickEffect whose interval is not cleared when isRunning is false.
tickEffectNotCleared(running, g, speed) ==
  IF running THEN [active |-> TRUE, grain |-> g, inc |-> TIME_INCREMENT(speed)]
  ELSE intervalRef

\* tickEffect with the test of isRunning inverted: no interval is set when the
\* run is started.
tickEffectInverted(running, g, speed) ==
  IF ~running THEN [active |-> TRUE, grain |-> g, inc |-> TIME_INCREMENT(speed)]
  ELSE NoInterval

\* The effect on [isRunning, selectedGrain, speedMultiplier, optimal_cook_time]:
\* its clean-up clears the previous interval and, when isRunning, it sets a new
\* one.  The handlers below run from click and change events, whose effects
\* React flushes before the next timer callback can run.
tickEffect(running, g, speed) ==
  IF running THEN [active |-> TRUE, grain |-> g, inc |-> TIME_INCREMENT(speed)]
  ELSE NoInterval

Init ==
  /\ selectedGrain = "basmati_rice"
  /\ grainWeight = 100
  /\ speedMultiplier = 10
  /\ isRunning = FALSE
  /\ simTime = 0
  /\ data = <<>>
  /\ currentPhase = "MICROWAVE"
  /\ grainTransformation = "Hydration"
  /\ decisions = <<>>
  /\ nirScanLoggedRef = FALSE
  /\ gelOnsetLoggedRef = FALSE
  /\ gelCompleteLoggedRef = FALSE
  /\ transferLoggedRef = FALSE
  /\ intervalRef = NoInterval

\* simulateCooking(time) in a render whose grain is g: the log entries it
\* records, the latches it sets and the labels it displays.  The value it
\* returns is newDataPoint(g, time).
simulateCooking(g, time) ==
  LET point == newDataPoint(g, time)
      refs  == refsAfter(g, time, refsNow)
  IN  /\ decisions' = applyDecisions(decisions, emittedEvents(g, time, refsNow))
      /\ nirScanLoggedRef' = refs.nirScan
      /\ gelOnsetLoggedRef' = refs.gelOnset
      /\ gelCompleteLoggedRef' = refs.gelComplete
      /\ transferLoggedRef' = refs.transfer
      /\ currentPhase' = point.phase
      /\ grainTransformation' = transformationOf(g, point.gelatinizationProgress)

\* Tick comparing newTime > cookTime: the tick that reaches cookTime exactly
\* still calls simulateCooking and appends its sample.
TickStrict ==
  /\ intervalRef.active
  /\ LET g       == intervalRef.grain
         newTime == simTime + intervalRef.inc
     IN  IF newTime > cookTime(g)
         THEN /\ isRunning' = FALSE
              /\ simTime' = cookTime(g)
              /\ intervalRef' = tickEffect(FALSE, selectedGrain, speedMultiplier)
              /\ UNCHANGED << data, currentPhase, grainTransformation, decisions,
                              nirScanLoggedRef, gelOnsetLoggedRef,
                              gelCompleteLoggedRef, transferLoggedRef >>
         ELSE /\ simulateCooking(g, newTime)
              /\ data' = Append(data, newDataPoint(g, newTime))
              /\ simTime' = newTime
              /\ UNCHANGED << isRunning, intervalRef >>
  /\ UNCHANGED << selectedGrain, grainWeight, speedMultiplier >>

\* One interval callback: setSimTime's updater, with everything it calls.
Tick ==
  /\ intervalRef.active
  /\ LET g       == intervalRef.grain
         newTime == simTime + intervalRef.inc
     IN  IF newTime >= cookTime(g)
         THEN /\ isRunning' = FALSE
              /\ simTime' = cookTime(g)
              /\ intervalRef' = tickEffect(FALSE, selectedGrain, speedMultiplier)
              /\ UNCHANGED << data, currentPhase, grainTransformation, decisions,
                              nirScanLoggedRef, gelOnsetLoggedRef,
                              gelCompleteLoggedRef, transferLoggedRef >>
         ELSE /\ simulateCooking(g, newTime)
              /\ data' = Append(data, newDataPoint(g, newTime))
              /\ simTime' = newTime
              /\ UNCHANGED << isRunning, intervalRef >>
  /\ UNCHANGED << selectedGrain, grainWeight, speedMultiplier >>

\* StartPause that starts over from elapsed time 0 when it resumes.
StartPauseFromZero ==
  /\ isRunning' = ~isRunning
  /\ intervalRef' = tickEffect(~isRunning, selectedGrain, speedMultiplier)
  /\ simTime' = IF isRunning THEN simTime ELSE 0
  /\ UNCHANGED << selectedGrain, grainWeight, speedMultiplier, data,
                  currentPhase, grainTransformation, decisions,
                  nirScanLoggedRef, gelOnsetLoggedRef, gelCompleteLoggedRef,
                  transferLoggedRef >>

\* StartPause that rewinds elapsed time to 0 when it starts a completed run.
StartPauseRestartsWhenDone ==
  /\ isRunning' = ~isRunning
  /\ intervalRef' = tickEffect(~isRunning, selectedGrain, speedMultiplier)
  /\ simTime' = IF ~isRunning /\ simTime = cookTime(selectedGrain) THEN 0 ELSE simTime
  /\ UNCHANGED << selectedGrain, grainWeight, speedMultiplier, data,
                  currentPhase, grainTransformation, decisions,
                  nirScanLoggedRef, gelOnsetLoggedRef, gelCompleteLoggedRef,
                  transferLoggedRef >>

\* The Start/Pause button: setIsRunning(!isRunning), then the effect.
StartPause ==
  /\ isRunning' = ~isRunning
  /\ intervalRef' = tickEffect(~isRunning, selectedGrain, speedMultiplier)
  /\ UNCHANGED << selectedGrain, grainWeight, speedMultiplier, simTime, data,
                  currentPhase, grainTransformation, decisions,
                  nirScanLoggedRef, gelOnsetLoggedRef, gelCompleteLoggedRef,
                  transferLoggedRef >>

\* resetTo without gelCompleteLoggedRef.current = false.
resetToKeepsLatch(g, speed) ==
  /\ isRunning' = FALSE
  /\ simTime' = 0
  /\ data' = <<>>
  /\ currentPhase' = "MICROWAVE"
  /\ grainTransformation' = "Hydration"
  /\ decisions' = <<>>
  /\ nirScanLoggedRef' = FALSE
  /\ gelOnsetLoggedRef' = FALSE
  /\ gelCompleteLoggedRef' = gelCompleteLoggedRef
  /\ transferLoggedRef' = FALSE
  /\ intervalRef' = tickEffect(FALSE, g, speed)

\* resetTo without gelOnsetLoggedRef.current = false.
resetToKeepsOnset(g, speed) ==
  /\ isRunning' = FALSE
  /\ simTime' = 0
  /\ data' = <<>>
  /\ currentPhase' = "MICROWAVE"
  /\ grainTransformation' = "Hydration"
  /\ decisions' = <<>>
  /\ nirScanLoggedRef' = FALSE
  /\ gelOnsetLoggedRef' = gelOnsetLoggedRef
  /\ gelCompleteLoggedRef' = FALSE
  /\ transferLoggedRef' = FALSE
  /\ intervalRef' = tickEffect(FALSE, g, speed)

\* handleReset, then the effect for the grain and speed given.
resetTo(g, speed) ==
  /\ isRunning' = FALSE
  /\ simTime' = 0
  /\ data' = <<>>
  /\ currentPhase' = "MICROWAVE"
  /\ grainTransformation' = "Hydration"
  /\ decisions' = <<>>
  /\ nirScanLoggedRef' = FALSE
  /\ gelOnsetLoggedRef' = FALSE
  /\ gelCompleteLoggedRef' = FALSE
  /\ transferLoggedRef' = FALSE
  /\ intervalRef' = tickEffect(FALSE, g, speed)

\* The Reset button.
handleReset ==
  /\ resetTo(selectedGrain, speedMultiplier)
  /\ UNCHANGED << selectedGrain, grainWeight, speedMultiplier >>

\* handleGrainChange without handleReset(): only setSelectedGrain, and the
\* effect sets the interval again for the new grain when isRunning.
handleGrainChangeNoReset(g) ==
  /\ g # selectedGrain
  /\ selectedGrain' = g
  /\ intervalRef' = tickEffect(isRunning, g, speedMultiplier)
  /\ UNCHANGED << grainWeight, speedMultiplier, isRunning, simTime, data,
                  currentPhase, grainTransformation, decisions,
                  nirScanLoggedRef, gelOnsetLoggedRef, gelCompleteLoggedRef,
                  transferLoggedRef >>

\* The grain select's onChange: handleReset(), then setSelectedGrain.
handleGrainChange(g) ==
  /\ g # selectedGrain
  /\ resetTo(g, speedMultiplier)
  /\ selectedGrain' = g
  /\ UNCHANGED << grainWeight, speedMultiplier >>

\* The speed select's onChange; the select is disabled while isRunning.  The
\* model changes the speed only while the series holds at most MaxMixLen
\* samples, or once the run is complete.
setSpeed(speed) ==
  /\ ~isRunning
  /\ speed # speedMultiplier
  /\ Len(data) <= MaxMixLen \/ simTime = cookTime(selectedGrain)
  /\ speedMultiplier' = speed
  /\ intervalRef' = tickEffect(isRunning, selectedGrain, speed)
  /\ UNCHANGED << selectedGrain, grainWeight, isRunning, simTime, data,
                  currentPhase, grainTransformation, decisions,
                  nirScanLoggedRef, gelOnsetLoggedRef, gelCompleteLoggedRef,
                  transferLoggedRef >>

\* The weight input's onChange: Math.max(1, parseInt(value) || 1); parsed is the
\* result of parseInt, and NaN and 0 are the falsy ones.
setWeight(parsed) ==
  LET orOne == IF parsed.nan \/ parsed.n = 0 THEN 1 ELSE parsed.n
  IN  /\ grainWeight' = Max(1, orOne)
      /\ grainWeight' # grainWeight
      /\ UNCHANGED << selectedGrain, speedMultiplier, isRunning, simTime, data,
                      currentPhase, grainTransformation, decisions,
                      nirScanLoggedRef, gelOnsetLoggedRef, gelCompleteLoggedRef,
                      transferLoggedRef, intervalRef >>

\* calculateWaterRequired: waterRatios in tenths (1.5 = 15), the default
\* ratio 2.0 for a grain the table lacks, and the value of
\* (grainWeight * ratio).toFixed(1) as a count of tenths of a millilitre.
waterRatios == [basmati_rice |-> 15, chickpeas |-> 30, lentils |-> 25, quinoa |-> 20]

\* calculateWaterRequired with no lentils row in waterRatios.
calculateWaterRequiredNoLentils(g, weight) ==
  LET ratio == IF g \in DOMAIN waterRatios \ {"lentils"} THEN waterRatios[g] ELSE 20
  IN  weight * ratio

calculateWaterRequired(g, weight) ==
  LET ratio == IF g \in DOMAIN waterRatios /\ waterRatios[g] # 0
               THEN waterRatios[g] ELSE 20
  IN  weight * ratio

Next ==
  \/ Tick
  \/ StartPause
  \/ handleReset
  \/ \E g \in GrainIds : handleGrainChange(g)
  \/ \E speed \in Speeds : setSpeed(speed)
  \/ \E parsed \in WeightInputs : setWeight(parsed)

Spec == Init /\ [][Next]_vars

\* ---------------------------------------------------------------------------
\* simulateCooking on its own: one call for any grain, any elapsed time of the
\* tick grid in 0 .. cookTime and any values of the four latches, from an empty
\* log.  simTime holds the argument and data the returned sample.
\* ---------------------------------------------------------------------------
EngineInit ==
  /\ selectedGrain \in GrainIds
  /\ grainWeight = 100
  /\ speedMultiplier = 10
  /\ isRunning = FALSE
  /\ simTime = 0
  /\ data = <<>>
  /\ currentPhase = "MICROWAVE"
  /\ grainTransformation = "Hydration"
  /\ decisions = <<>>
  /\ nirScanLoggedRef \in BOOLEAN
  /\ gelOnsetLoggedRef \in BOOLEAN
  /\ gelCompleteLoggedRef \in BOOLEAN
  /\ transferLoggedRef \in BOOLEAN
  /\ intervalRef = NoInterval

EngineCall(time) ==
  /\ simulateCooking(selectedGrain, time)
  /\ data' = << newDataPoint(selectedGrain, time) >>
  /\ simTime' = time
  /\ UNCHANGED << selectedGrain, grainWeight, speedMultiplier, isRunning,
                  intervalRef >>

\* One call per behaviour.
EngineNext ==
  /\ data = <<>>
  /\ \E time \in 0..cookTime(selectedGrain) : EngineCall(time)

EngineSpec == EngineInit /\ [][EngineNext]_vars

\* ---------------------------------------------------------------------------
\* A run left alone: a grain and an option of the speed select chosen, Start
\* pressed, and then only interval callbacks.  setInterval keeps calling the
\* callback while the interval is pending, which is weak fairness of Tick.
\* The runs are those of at most MaxRunTicks ticks: every grain at the speeds
\* 2, 5, 10 and 20, and basmati_rice at speed 1.
\* ---------------------------------------------------------------------------
MaxRunTicks == 6000

RunInit ==
  /\ selectedGrain \in GrainIds
  /\ grainWeight = 100
  /\ speedMultiplier \in SpeedOptions
  /\ cookTime(selectedGrain) <= MaxRunTicks * TIME_INCREMENT(speedMultiplier)
  /\ isRunning = TRUE
  /\ simTime = 0
  /\ data = <<>>
  /\ currentPhase = "MICROWAVE"
  /\ grainTransformation = "Hydration"
  /\ decisions = <<>>
  /\ nirScanLoggedRef = FALSE
  /\ gelOnsetLoggedRef = FALSE
  /\ gelCompleteLoggedRef = FALSE
  /\ transferLoggedRef = FALSE
  /\ intervalRef = tickEffect(TRUE, selectedGrain, speedMultiplier)

RunNext == Tick

RunSpec == RunInit /\ [][RunNext]_vars /\ WF_vars(Tick)

\* ---------------------------------------------------------------------------
\* The settings panel on its own: grain changes and weight inputs parsed to NaN
\* or to one of -1 .. MaxWaterWeight, with no run.
\* ---------------------------------------------------------------------------
MaxWaterWeight == 160

WaterInputs == { [nan |-> TRUE, n |-> 0] }
               \cup { [nan |-> FALSE, n |-> v] : v \in -1..MaxWaterWeight }

WaterNext ==
  \/ \E g \in GrainIds : handleGrainChange(g)
  \/ \E parsed \in WaterInputs : setWeight(parsed)

WaterSpec == Init /\ [][WaterNext]_vars

\* ---------------------------------------------------------------------------
\* Properties
\* ---------------------------------------------------------------------------
Last(s) == s[Len(s)]

\* A step that appends one sample to the series.
Appends == Len(data') = Len(data) + 1

\* A step after which the run is rewound: what Reset and a grain change leave.
Rewinds == data' = <<>> /\ decisions' = <<>> /\ simTime' = 0 /\ ~isRunning'

\* The boundary table of the phases, in hundredths of cookTime.
PhaseTable ==
  << [phase |-> "MICROWAVE", from |-> 0,  to |-> 45],
     [phase |-> "TRANSFER",  from |-> 45, to |-> 48],
     [phase |-> "PRESSURE",  from |-> 48, to |-> 85],
     [phase |-> "COOLING",   from |-> 85, to |-> 95],
     [phase |-> "DONE",      from |-> 95, to |-> 100] >>

InRow(row, g, time) ==
  /\ row.from * cookTime(g) <= 100 * time
  /\ \/ 100 * time < row.to * cookTime(g)
     \/ row.to = 100 /\ time = cookTime(g)

\* C1: for every grain and every elapsed time in 0 .. cookTime, the sample
\* simulateCooking returns and the phase it displays carry the phase of the one
\* row of the boundary table the time lies in, a boundary instant lying in the
\* later row.
C1_PhaseTable ==
  data # <<>> =>
    /\ \A i \in 1..Len(PhaseTable) :
         data[1].phase = PhaseTable[i].phase
           <=> InRow(PhaseTable[i], selectedGrain, simTime)
    /\ currentPhase = data[1].phase

C1_Witness ==
  /\ data # <<>>
  /\ selectedGrain = "basmati_rice"
  /\ simTime = 2700
  /\ data[1].phase = "TRANSFER"

\* C2: within one run the phase of a sample appended to the series is never
\* before the phase of the sample appended before it, and the displayed
\* currentPhase goes back only in a step that rewinds the run.
C2_PhaseNeverRegresses ==
  [][ /\ (Appends /\ data # <<>>)
           => PhaseRank(Last(data).phase) <= PhaseRank(Last(data').phase)
      /\ PhaseRank(currentPhase') < PhaseRank(currentPhase) => Rewinds ]_vars

C2_Witness ==
  /\ ~isRunning
  /\ Len(data) >= 2
  /\ Last(data).phase = "TRANSFER"
  /\ data[Len(data) - 1].phase = "MICROWAVE"
  /\ currentPhase = "TRANSFER"

\* C3: every sample appended to the series has gelatinizationProgress in
\* [0, 100], and at least the gelatinizationProgress of the sample before it.
C3_GelMonotone ==
  [][ Appends =>
        LET new == Last(data')
        IN  /\ 0 <= new.gelatinizationProgress
            /\ new.gelatinizationProgress <= 100 * gelUnit(selectedGrain')
            /\ data # <<>> =>
                 Last(data).gelatinizationProgress <= new.gelatinizationProgress ]_vars

C3_Witness ==
  /\ Len(data) >= 2
  /\ Last(data).phase = "COOLING"
  /\ data[Len(data) - 1].phase = "PRESSURE"
  /\ data[Len(data) - 1].gelatinizationProgress > 60 * gelUnit(selectedGrain)
  /\ data[Len(data) - 1].gelatinizationProgress < Last(data).gelatinizationProgress
  /\ \E i \in 1..Len(data) :
       /\ data[i].gelatinizationProgress > 0
       /\ data[i].gelatinizationProgress < 60 * gelUnit(selectedGrain)

OneShotMessages ==
  { "NIR Scan Complete", "Gelatinization onset detected", "Transferring vessel",
    "Gelatinization complete" }

Entries(message) == { i \in 1..Len(decisions) : decisions[i].message = message }

\* C4: the Decision Log never holds more than one NIR-scan entry, one
\* gelatinization-onset entry, one transfer entry or one gelatinization-complete
\* entry.
C4_OneShotAtMostOnce ==
  \A m \in OneShotMessages : Cardinality(Entries(m)) <= 1

C4_Witness ==
  /\ simTime = cookTime(selectedGrain)
  /\ Cardinality(Entries("Gelatinization onset detected")) = 1
  /\ Cardinality(Entries("Transferring vessel")) = 1
  /\ Cardinality(Entries("Gelatinization complete")) = 1

AllLatched ==
  nirScanLoggedRef /\ gelOnsetLoggedRef /\ transferLoggedRef /\ gelCompleteLoggedRef

NoneLatched ==
  ~nirScanLoggedRef /\ ~gelOnsetLoggedRef /\ ~transferLoggedRef /\ ~gelCompleteLoggedRef

\* C5: in a run driven by ticks from elapsed time 0 to cookTime, each of the four
\* latches is true when the run completes, and a latch goes back to false only
\* in a step that rewinds the run.
C5_LatchesFlipOnce ==
  [][ /\ (simTime < cookTime(selectedGrain) /\ simTime' = cookTime(selectedGrain'))
           => AllLatched'
      /\ \/ (nirScanLoggedRef /\ ~nirScanLoggedRef')
         \/ (gelOnsetLoggedRef /\ ~gelOnsetLoggedRef')
         \/ (transferLoggedRef /\ ~transferLoggedRef')
         \/ (gelCompleteLoggedRef /\ ~gelCompleteLoggedRef')
         => Rewinds ]_vars

Buckets(log) == { toFixed1(log[i].time) : i \in 1..Len(log) }

IsPrefix(s, t) == Len(s) <= Len(t) /\ \A i \in 1..Len(s) : s[i] = t[i]

\* C6: after every step no two entries of the Decision Log lie in the same
\* bucket of one tenth of a minute; and a call of simulateCooking leaves the log
\* extended by exactly one entry for each bucket that its addDecision calls
\* name and the log did not hold, each such entry being one of the events
\* emitted, whatever the messages.
C6_OnePerBucket ==
  [][ /\ \A i, j \in 1..Len(decisions') :
           i # j => toFixed1(decisions'[i].time) # toFixed1(decisions'[j].time)
      /\ Appends =>
           LET ev    == emittedEvents(intervalRef.grain, simTime', refsNow)
               asked == { toFixed1(ev[k].time) : k \in 1..Len(ev) }
           IN  /\ IsPrefix(decisions, decisions')
               /\ asked \subseteq Buckets(decisions')
               /\ Len(decisions') - Len(decisions)
                    = Cardinality(asked \ Buckets(decisions))
               /\ \A i \in (Len(decisions) + 1)..Len(decisions') :
                    \E k \in 1..Len(ev) : ev[k] = decisions'[i] ]_vars

\* The microwave status of lentils at 180 s is suppressed by the onset entry of
\* 178 s, which lies in the same bucket.
C6_Witness ==
  /\ selectedGrain = "lentils"
  /\ simTime = 1800
  /\ decisions # <<>>
  /\ Last(decisions).message = "Gelatinization onset detected"
  /\ toFixed1(Last(decisions).time) = toFixed1(1800)
  /\ Last(decisions).time < 1800

\* C7: every step other than Reset or a grain change leaves the Decision Log it
\* found as a prefix of the log it leaves.
C7_LogAppendOnly ==
  [][ \/ handleReset
      \/ \E g \in GrainIds : handleGrainChange(g)
      \/ IsPrefix(decisions, decisions') ]_vars

C7_Witness ==
  /\ Len(decisions) >= 3
  /\ ~isRunning
  /\ grainWeight = 1
  /\ speedMultiplier = 20
  /\ simTime = cookTime(selectedGrain)
  /\ Len(data) * 10 = cookTime(selectedGrain) - 10

\* C8: Reset can be pressed in every state, and the step it takes ends with an
\* empty series, an empty Decision Log, the four latches false, elapsed time 0,
\* isRunning false, currentPhase MICROWAVE and the transformation Hydration.
C8_ResetRewinds ==
  [][ /\ ENABLED handleReset
      /\ handleReset =>
           /\ data' = <<>>
           /\ decisions' = <<>>
           /\ NoneLatched'
           /\ simTime' = 0
           /\ ~isRunning'
           /\ currentPhase' = "MICROWAVE"
           /\ grainTransformation' = "Hydration" ]_vars

C8_Witness ==
  /\ simTime = cookTime(selectedGrain)
  /\ ~isRunning
  /\ data # <<>>
  /\ decisions # <<>>
  /\ gelOnsetLoggedRef /\ transferLoggedRef /\ gelCompleteLoggedRef
  /\ grainTransformation = "Fully Cooked"
  /\ ENABLED handleReset

C10_PauseKeepsRun ==
  [][ /\ StartPause =>
           UNCHANGED << simTime, data, decisions, nirScanLoggedRef,
                        gelOnsetLoggedRef, gelCompleteLoggedRef, transferLoggedRef >>
      /\ ~isRunning => Len(data') <= Len(data)
      /\ Appends =>
           /\ simTime' = simTime + TIME_INCREMENT(speedMultiplier)
           /\ Last(data') = newDataPoint(selectedGrain, simTime') ]_vars

\* Paused after the first sample of a run at speed 10, the speed set to 20, and
\* resumed: the second sample is the one of 1 s + 2 s.
C10_Witness ==
  /\ isRunning
  /\ speedMultiplier = 20
  /\ Len(data) = 2
  /\ data[1].time = toFixed2(10)
  /\ data[2].time = toFixed2(30)
  /\ simTime = 30

\* C11: a step that changes the selected grain leaves the run stopped, no
\* interval pending, the series and the log empty, the latches false and
\* elapsed time 0; a pending interval always carries the selected grain; and
\* every sample appended and every log entry recorded is one that
\* simulateCooking computes from the selected grain's profile.
C11_GrainChangeResets ==
  [][ /\ selectedGrain' # selectedGrain =>
           /\ ~isRunning' /\ ~intervalRef'.active
           /\ data' = <<>> /\ decisions' = <<>> /\ simTime' = 0
           /\ NoneLatched'
      /\ intervalRef'.active => intervalRef'.grain = selectedGrain'
      /\ Appends =>
           /\ Last(data') = newDataPoint(selectedGrain', simTime')
           /\ simTime' < cookTime(selectedGrain')
           /\ LET ev == emittedEvents(selectedGrain', simTime', refsNow)
              IN  \A i \in (Len(decisions) + 1)..Len(decisions') :
                    \E k \in 1..Len(ev) : ev[k] = decisions'[i] ]_vars

\* A run of quinoa in progress, after the grain was changed, in which the grain
\* can be changed again.
C11_Witness ==
  /\ selectedGrain = "quinoa"
  /\ isRunning
  /\ currentPhase = "PRESSURE"
  /\ decisions # <<>>
  /\ ENABLED handleGrainChange("lentils")

\* C12: elapsed time is always within 0 .. cookTime of the selected grain, and
\* a tick whose new time is at or beyond cookTime sets elapsed time to cookTime
\* and isRunning to false and leaves the series as it is.
C12_TimeWithinCookTime ==
  [][ /\ 0 <= simTime /\ simTime <= cookTime(selectedGrain)
      /\ 0 <= simTime' /\ simTime' <= cookTime(selectedGrain')
      /\ (Tick /\ simTime + intervalRef.inc >= cookTime(selectedGrain)) =>
           /\ simTime' = cookTime(selectedGrain)
           /\ ~isRunning'
           /\ data' = data ]_vars

\* A run whose samples lie at 1 s, 3 s, 5 s, ...: its last tick would pass
\* cookTime by 1 s.
C12_Witness ==
  /\ simTime = cookTime(selectedGrain)
  /\ ~isRunning
  /\ Len(data) >= 2
  /\ data[1].time = toFixed2(10)
  /\ data[2].time = toFixed2(30)
  /\ Last(data).time = toFixed2(cookTime(selectedGrain) - 10)

\* C13: for every grain and every option of the speed select (runs of at most
\* MaxRunTicks ticks), a run that is started and left to its ticks reaches
\* isRunning false with elapsed time cookTime.
C13_RunTerminates ==
  <>(~isRunning /\ simTime = cookTime(selectedGrain))

C13_Witness ==
  /\ ~isRunning
  /\ simTime = cookTime(selectedGrain)
  /\ selectedGrain = "lentils"
  /\ speedMultiplier = 20
  /\ Len(data) = 419

\* The elapsed time of a sample of the series: the multiple of 1 s whose
\* minutes round to the sample's time.
TimeOfSample(sample) ==
  CHOOSE t \in (6 * sample.time - 3)..(6 * sample.time + 2) : t % 10 = 0

\* The log and the latches of a first run: simulateCooking called for the
\* elapsed times of series[lo], ..., series[hi] in turn, from the log and the
\* latches of st.  The range is halved, and the first half evaluated before the
\* second is entered, so that the evaluation stays shallow.
RECURSIVE FirstRun(_, _, _, _, _)
FirstRun(g, series, lo, hi, st) ==
  IF lo > hi THEN st
  ELSE IF lo = hi
  THEN LET time == TimeOfSample(series[lo])
       IN  [ decisions |-> applyDecisions(st.decisions,
                                          emittedEvents(g, time, st.refs)),
             refs |-> refsAfter(g, time, st.refs) ]
  ELSE LET mid  == (lo + hi) \div 2
           left == FirstRun(g, series, lo, mid, st)
       IN  IF Len(left.decisions) >= 0
           THEN FirstRun(g, series, mid + 1, hi, left)
           ELSE st

NoRefs == [nirScan |-> FALSE, gelOnset |-> FALSE, gelComplete |-> FALSE, transfer |-> FALSE]

\* C15: whatever runs, resets and grain changes came before, the Decision Log,
\* the latches and the series of the current run are those of a first run of the
\* selected grain over the same ticks, starting from the empty log and the
\* latches false.  Checked when the run is complete and at every 50th sample.
C15_RunReproducible ==
  (simTime = cookTime(selectedGrain) \/ Len(data) % 50 = 0) =>
    LET first == FirstRun(selectedGrain, data, 1, Len(data),
                          [decisions |-> <<>>, refs |-> NoRefs])
    IN  /\ decisions = first.decisions
        /\ refsNow = first.refs
        /\ \A i \in 1..Len(data) :
             data[i] = newDataPoint(selectedGrain, TimeOfSample(data[i]))

\* A complete run of a grain other than the initial one, that is, a run
\* performed after the rewind of a grain change.
C15_Witness ==
  /\ selectedGrain = "lentils"
  /\ simTime = cookTime(selectedGrain)
  /\ ~isRunning
  /\ Len(decisions) >= 5
  /\ Len(data) * 10 = cookTime(selectedGrain) - 10

\* C16: for every grain, simulateCooking(0) returns moisture initial_moisture,
\* temperature 25, pressure 1 and phase MICROWAVE, and simulateCooking(cookTime)
\* returns moisture target_moisture - 2, phase DONE and gelatinizationProgress
\* 100.
C16_EndPoints ==
  data # <<>> =>
    LET G      == GRAIN_PROFILES[selectedGrain]
        sample == data[1]
    IN  /\ simTime = 0 =>
             /\ sample.moisture = G.initial_moisture * sample.den
             /\ sample.temperature = 25 * sample.den
             /\ sample.pressure = sample.den
             /\ sample.phase = "MICROWAVE"
        /\ simTime = cookTime(selectedGrain) =>
             /\ sample.moisture = (G.target_moisture - 2) * sample.den
             /\ sample.phase = "DONE"
             /\ sample.gelatinizationProgress = 100 * gelUnit(selectedGrain)

C16_Witness ==
  /\ data # <<>>
  /\ selectedGrain = "quinoa"
  /\ simTime = cookTime(selectedGrain)
  /\ data[1].moisture = 60 * data[1].den
  /\ currentPhase = "DONE"

\* The ratios of the claim, in halves: 1.5, 3.0, 2.5, 2.0, and 2.0 for any other id.
ClaimedRatioHalves(g) ==
  CASE g = "basmati_rice" -> 3
    [] g = "chickpeas"    -> 6
    [] g = "lentils"      -> 5
    [] g = "quinoa"       -> 4
    [] OTHER              -> 4

\* C17: for the selected grain and every weight the input leaves in grainWeight,
\* the water required is grainWeight * ratio(selectedGrain), in tenths of a
\* millilitre; chickpeas at 150 g give 450 ml; and grainWeight is at least 1.
C17_WaterRequired ==
  /\ grainWeight >= 1
  /\ 2 * calculateWaterRequired(selectedGrain, grainWeight)
       = 10 * grainWeight * ClaimedRatioHalves(selectedGrain)
  /\ (selectedGrain = "chickpeas" /\ grainWeight = 150)
       => calculateWaterRequired(selectedGrain, grainWeight) = 4500

C17_Witness ==
  /\ selectedGrain = "lentils"
  /\ grainWeight = 3
  /\ calculateWaterRequired(selectedGrain, grainWeight) = 75

\* The classification of the claim, for a progress value gel over gelUnit.
ClaimedLabel(g, gel) ==
  CASE gel = 0                                             -> "Hydration"
    [] 0 < gel /\ gel < 60 * gelUnit(g)                    -> "Gelatinization Onset"
    [] 60 * gelUnit(g) <= gel /\ gel < 100 * gelUnit(g)    -> "Complete Gelatinization"
    [] gel = 100 * gelUnit(g)                              -> "Fully Cooked"

\* C18: the displayed transformation is Hydration when the series is empty and
\* otherwise the label the classification gives the gelatinizationProgress of
\* the last sample, which lies in [0, 100].
C18_LabelOfLastSample ==
  IF data = <<>> THEN grainTransformation = "Hydration"
  ELSE /\ 0 <= Last(data).gelatinizationProgress
       /\ Last(data).gelatinizationProgress <= 100 * gelUnit(selectedGrain)
       /\ grainTransformation
            = ClaimedLabel(selectedGrain, Last(data).gelatinizationProgress)

\* The TRANSFER sample: progress exactly 60.
C18_Witness ==
  /\ data # <<>>
  /\ Last(data).gelatinizationProgress = 60 * gelUnit(selectedGrain)
  /\ Last(data).phase = "TRANSFER"
  /\ grainTransformation = "Complete Gelatinization"

NirEntries(log) ==
  { i \in 1..Len(log) :
      log[i].message \in {"NIR Scan Complete", "Composition"} }

\* C19: a call of simulateCooking at elapsed time 0 with nirScanLoggedRef false
\* and an empty Decision Log leaves the NIR-scan entry and the composition
\* entry in the log, both at time 0, and nirScanLoggedRef true; a call at
\* elapsed time 0 with nirScanLoggedRef true records neither.
C19_NirScanAtZero ==
  [][ (data = <<>> /\ data' # <<>> /\ simTime' = 0 /\ decisions = <<>>) =>
        IF ~nirScanLoggedRef
        THEN /\ nirScanLoggedRef'
             /\ \E i \in 1..Len(decisions') :
                  decisions'[i] = [time |-> 0, message |-> "NIR Scan Complete"]
             /\ \E i \in 1..Len(decisions') :
                  decisions'[i] = [time |-> 0, message |-> "Composition"]
        ELSE NirEntries(decisions') = {} ]_vars

\* The sample's condition of each latched event.
OnsetSample(g, sample) ==
  /\ sample.phase = "MICROWAVE"
  /\ 10 * sample.temperature >= GRAIN_PROFILES[g].gelatinization_onset * sample.den

TransferSample(g, sample) == sample.phase = "TRANSFER"

\* pressureProgress > 0.6, read from gelatinizationProgress = 60 + 40 * pressureProgress.
CompleteSample(g, sample) ==
  /\ sample.phase = "PRESSURE"
  /\ sample.gelatinizationProgress > 84 * gelUnit(g)

\* C20: transferLoggedRef implies gelOnsetLoggedRef and gelCompleteLoggedRef
\* implies transferLoggedRef; and each of the three latches goes from false to
\* true exactly in the step that appends the first sample of the series that
\* meets the latch's condition: a MICROWAVE sample with temperature at or above
\* gelatinization_onset, a TRANSFER sample, a PRESSURE sample with
\* pressureProgress above 0.6.
C20_LatchOrder ==
  [][ /\ transferLoggedRef' => gelOnsetLoggedRef'
      /\ gelCompleteLoggedRef' => transferLoggedRef'
      /\ (~gelOnsetLoggedRef /\ gelOnsetLoggedRef')
           <=> /\ Appends /\ OnsetSample(selectedGrain, Last(data'))
               /\ \A i \in 1..Len(data) : ~OnsetSample(selectedGrain, data[i])
      /\ (~transferLoggedRef /\ transferLoggedRef')
           <=> /\ Appends /\ TransferSample(selectedGrain, Last(data'))
               /\ \A i \in 1..Len(data) : ~TransferSample(selectedGrain, data[i])
      /\ (~gelCompleteLoggedRef /\ gelCompleteLoggedRef')
           <=> /\ Appends /\ CompleteSample(selectedGrain, Last(data'))
               /\ \A i \in 1..Len(data) : ~CompleteSample(selectedGrain, data[i]) ]_vars

C20_Witness ==
  /\ isRunning
  /\ gelOnsetLoggedRef /\ transferLoggedRef /\ gelCompleteLoggedRef
  /\ Len(data) >= 2
  /\ CompleteSample(selectedGrain, Last(data))
  /\ ~CompleteSample(selectedGrain, data[Len(data) - 1])

\* C21: every tick whose new time, the elapsed time plus 0.1 s times
\* speedMultiplier, is below cookTime leaves the series extended by exactly one
\* sample, the one simulateCooking returns for the new time, and makes the new
\* time the elapsed time; and the time of a sample appended is never below the
\* time of the sample before it.
C21_OneSamplePerTick ==
  [][ /\ (Tick /\ simTime + speedMultiplier < cookTime(selectedGrain)) =>
           /\ Appends
           /\ IsPrefix(data, data')
           /\ Last(data') = newDataPoint(selectedGrain, simTime + speedMultiplier)
           /\ simTime' = simTime + speedMultiplier
      /\ (Appends /\ data # <<>>) => Last(data).time <= Last(data').time ]_vars

\* At speed 1 the samples of 0.1 s and 0.2 s carry the same time, 0.00 min, and
\* the sample of 0.3 s the next one.
C21_Witness ==
  /\ speedMultiplier = 1
  /\ Len(data) = 3
  /\ data[1].time = data[2].time
  /\ data[2].time < data[3].time
  /\ simTime = 3

\* C22: a latch that is set has its entry in the Decision Log: gelOnsetLoggedRef
\* implies an onset entry, transferLoggedRef a transfer entry and
\* gelCompleteLoggedRef a gelatinization-complete entry.
C22_LatchHasEntry ==
  /\ gelOnsetLoggedRef => Entries("Gelatinization onset detected") # {}
  /\ transferLoggedRef => Entries("Transferring vessel") # {}
  /\ gelCompleteLoggedRef => Entries("Gelatinization complete") # {}

\* Lentils at speed 20: the onset entry of 178 s is in the log and the
\* microwave status of 180 s, in the same bucket, is not.
C22_Witness ==
  /\ selectedGrain = "lentils"
  /\ speedMultiplier = 20
  /\ simTime = 1800
  /\ gelOnsetLoggedRef
  /\ Entries("Gelatinization onset detected") # {}
  /\ \A i \in 1..Len(decisions) : decisions[i].time # 1800

\* C23: a MICROWAVE sample whose temperature is above gelatinization_onset has
\* gelatinizationProgress above 0, and the transformation displayed with it is
\* Gelatinization Onset.
C23_GelAboveOnset ==
  (/\ data # <<>>
   /\ data[1].phase = "MICROWAVE"
   /\ 10 * data[1].temperature
        > GRAIN_PROFILES[selectedGrain].gelatinization_onset * data[1].den)
  => /\ data[1].gelatinizationProgress > 0
     /\ grainTransformation = "Gelatinization Onset"

\* C24: from a state with elapsed time cookTime, every step other than Reset or
\* a grain change leaves elapsed time, the series, the Decision Log and the
\* latches as they are, and a tick leaves isRunning false.
C24_CompletedStays ==
  [][ simTime = cookTime(selectedGrain) =>
        \/ handleReset
        \/ \E g \in GrainIds : handleGrainChange(g)
        \/ /\ simTime' = simTime
           /\ data' = data
           /\ decisions' = decisions
           /\ refsNow' = refsNow
           /\ Tick => ~isRunning' ]_vars

\* Start pressed on a completed run: running again at elapsed time cookTime.
C24_Witness ==
  /\ simTime = cookTime(selectedGrain)
  /\ isRunning
  /\ intervalRef.active
  /\ data # <<>>
  /\ ENABLED Tick

\* C25: whenever elapsed time is cookTime, currentPhase is DONE, the
\* transformation is Fully Cooked and the last sample of the series is a DONE
\* sample.
C25_DoneWhenComplete ==
  simTime = cookTime(selectedGrain) =>
    /\ currentPhase = "DONE"
    /\ grainTransformation = "Fully Cooked"
    /\ data # <<>>
    /\ Last(data).phase = "DONE"

C25_Witness ==
  /\ simTime = cookTime(selectedGrain)
  /\ ~isRunning
  /\ selectedGrain = "basmati_rice"
  /\ speedMultiplier = 20
  /\ currentPhase = "DONE"
  /\ Last(data).time = toFixed2(cookTime(selectedGrain) - 20)

====
